---- MODULE Spec2Model ----
(***************************************************************************)
(* Model of the poker-lan table server (server.js) and of the hand         *)
(* evaluator it calls at showdown (poker.js).  One room is modelled; every *)
(* socket handler and every timer callback is one action.                  *)
(***************************************************************************)
EXTENDS Integers, Sequences, FiniteSets, TLC

(* ------------------------------ bounds --------------------------------- *)
\* every specification: the sockets that connect, the hands played to the
\* end, and the sockets that disconnect where the clients do
MaxPlayers == 5
MaxHands == 1
MaxDisconnects == 1
\* Spec: clients that stay connected and send every kind of action, with at
\* most MaxRaises raises and shoves in a hand
MaxRaises == 1
\* SpecShove: clients that only fold or raise their whole stack, and may leave
ShoveRaises == 2
\* SpecShort: clients that stay connected and fold, check or raise to their
\* whole stack or to one chip less, over ShortHands hands
ShortHands == 2
\* SpecPassive: clients that only fold, check or call, and may leave
\* SpecCalm: clients that stay connected and only check or call
\* SpecSeats: MaxJoiners sockets that join, fold and leave, SeatLeavers of
\* them at most
MaxJoiners == 11
SeatLeavers == 1
\* SpecBust: clients that stay connected and fold or go all-in, at most
\* BustShoves of them in a hand, over BustHands hands
BustShoves == 4
BustHands == 2
\* SpecLate: the clients of SpecShove with LateSockets sockets, one more than
\* are needed to start a hand
LateSockets == 6

(* ------------------------- program constants --------------------------- *)
STARTING_CHIPS == 200
SMALL_BLIND == 1
BIG_BLIND == 2
MaxSeats == 9
MinPlayers == 5
REBUY_CHIPS == 200
DeckSize == 52

Sockets == 1..MaxPlayers

(* ------------------------------ poker.js ------------------------------- *)
SUITS == 1..4
RANK_VALUE == 2..14

Card(v, s) == [value |-> v, suit |-> s]

SeqMax(S) == CHOOSE x \in S : \A y \in S : x >= y
SeqMin(S) == CHOOSE x \in S : \A y \in S : x <= y

RECURSIVE InsertDesc(_, _)
InsertDesc(sorted, c) ==
    IF sorted = <<>> THEN <<c>>
    ELSE IF Head(sorted).value >= c.value
         THEN <<Head(sorted)>> \o InsertDesc(Tail(sorted), c)
         ELSE <<c>> \o sorted

RECURSIVE SortDesc(_)
SortDesc(cards) ==
    IF cards = <<>> THEN <<>>
    ELSE InsertDesc(SortDesc(SubSeq(cards, 1, Len(cards) - 1)), cards[Len(cards)])

getCounts(cards, v) == Cardinality({i \in 1..Len(cards) : cards[i].value = v})

SuitCards(cards, s) == SelectSeq(cards, LAMBDA c : c.suit = s)

\* the first suit (in order of first appearance) holding five or more cards,
\* cut to its five highest cards; <<>> stands for the JS value false
isFlush(cards) ==
    LET big == {i \in 1..Len(cards) : Len(SuitCards(cards, cards[i].suit)) >= 5}
    IN IF big = {} THEN <<>>
       ELSE SubSeq(SuitCards(cards, cards[SeqMin(big)].suit), 1, 5)

\* the distinct values in descending order, the Ace also counted as 1
RECURSIVE DescSeq(_)
DescSeq(S) == IF S = {} THEN <<>> ELSE <<SeqMax(S)>> \o DescSeq(S \ {SeqMax(S)})

\* uniqueValues without the Ace counted as 1: C16 fails with it
uniqueValues_AceHigh(cards) ==
    DescSeq({cards[i].value : i \in 1..Len(cards)})

uniqueValues(cards) ==
    LET vs == {cards[i].value : i \in 1..Len(cards)}
    IN DescSeq(IF 14 \in vs THEN vs \cup {1} ELSE vs)

\* the scan of isStraight: streak is the current run, 0 stands for false
RECURSIVE StraightScan(_, _)
StraightScan(vals, streak) ==
    IF vals = <<>> THEN 0
    ELSE LET v == Head(vals)
             s2 == IF streak = <<>> \/ streak[Len(streak)] = v + 1
                   THEN Append(streak, v) ELSE <<v>>
         IN IF Len(s2) = 5 THEN s2[1] ELSE StraightScan(Tail(vals), s2)

isStraight(cards) == StraightScan(uniqueValues(cards), <<>>)

\* keys.filter(k => counts[k] === n), as card values
valuesCounted(cards, n) == {v \in RANK_VALUE : getCounts(cards, v) = n}

\* lines 87-135: the tiers, tried in the order of the code, on the results of
\* isFlush, isStraight and getCounts
handTier(allCards, flushCards, straightFlushHigh, quads, trips, pairs, straightHigh) ==
    IF flushCards # <<>>
    THEN IF straightFlushHigh # 0 THEN 900 + straightFlushHigh
         ELSE 600 + flushCards[1].value
    ELSE IF quads # {} THEN 800 + SeqMax(quads)
    ELSE IF trips # {} /\ (Cardinality(trips) >= 2 \/ pairs # {})
         THEN 700 + SeqMax(trips)
    ELSE IF straightHigh # 0 THEN 500 + straightHigh
    ELSE IF trips # {} THEN 400 + SeqMax(trips)
    ELSE IF Cardinality(pairs) >= 2 THEN 300 + SeqMax(pairs)
    ELSE IF Cardinality(pairs) = 1 THEN 200 + SeqMax(pairs)
    ELSE 100 + allCards[1].value

\* lines 85-135 on the cards sorted by line 48
scoreSorted(allCards) ==
    handTier(allCards, isFlush(allCards), isStraight(isFlush(allCards)),
             valuesCounted(allCards, 4), valuesCounted(allCards, 3),
             valuesCounted(allCards, 2), isStraight(allCards))

\* evaluateHand(...).score
evaluateHand(holeCards, communityCards) ==
    scoreSorted(SortDesc(holeCards \o communityCards))

\* Deck.reset: the 52 cards in construction order
FullDeck == [i \in 1..DeckSize |-> Card(2 + ((i - 1) % 13), 1 + ((i - 1) \div 13))]

RECURSIVE Reverse(_)
Reverse(s) == IF s = <<>> THEN <<>> ELSE Append(Reverse(Tail(s)), Head(s))

\* Deck.shuffle: a permutation of the deck, given by the cards that deal()
\* pops first; the array ends with them
Shuffled(top) ==
    Reverse(top \o SelectSeq(FullDeck, LAMBDA c : \A i \in 1..Len(top) : top[i] # c))

\* the outcomes of Math.random that are explored: with five players dealt,
\* the first gives one best hand and the second gives five equal scores
ShuffleTops ==
    << << Card(14,1), Card(14,2), Card(13,1), Card(12,2), Card(13,2), Card(11,3),
          Card(7,2),  Card(3,4),  Card(9,4),  Card(8,3),  Card(2,4),
          Card(14,3), Card(13,4), Card(7,1),  Card(4,2),  Card(2,3) >>,
       << Card(14,1), Card(13,3), Card(14,2), Card(11,4), Card(13,1), Card(10,3),
          Card(8,1),  Card(7,3),  Card(6,4),  Card(4,1),  Card(2,2),
          Card(12,1), Card(12,3), Card(9,4),  Card(5,2),  Card(3,3) >> >>

Shuffles == [k \in 1..Len(ShuffleTops) |-> Shuffled(ShuffleTops[k])]

\* a Deck object: the shuffle it was built with and the cards left in it
Deck(k) == [shuffle |-> k, n |-> DeckSize]
NoDeck == [shuffle |-> 0, n |-> 0]

\* Deck.deal: the card popped and the deck after the pop
dealCard(deck) == Shuffles[deck.shuffle][deck.n]
dealRest(deck) == [deck EXCEPT !.n = deck.n - 1]

(* ------------------------------ server.js ------------------------------ *)
\* a value the code has not assigned yet (undefined)
Undefined == -1

\* the player object of the joinRoom handler
NewPlayer(id, seat) ==
    [id |-> id, chips |-> STARTING_CHIPS, seatIndex |-> seat, status |-> "waiting",
     hand |-> <<>>, currentBet |-> 0, actedInRound |-> FALSE]

\* room.players.find / findIndex: the first index satisfying the test, 0 if none
IndexOfId(ps, id) ==
    LET I == {i \in 1..Len(ps) : ps[i].id = id}
    IN IF I = {} THEN 0 ELSE SeqMin(I)

IndexOfSeat(ps, seat) ==
    LET I == {i \in 1..Len(ps) : ps[i].seatIndex = seat}
    IN IF I = {} THEN 0 ELSE SeqMin(I)

RECURSIVE SumSeq(_)
SumSeq(s) == IF s = <<>> THEN 0 ELSE Head(s) + SumSeq(Tail(s))

\* clearTimeout that cancels nothing: C27 fails with it
clearTurnTimer_Keep(r) == r

\* clearTimeout(room.turnTimer): the timeout the handle refers to is dropped
clearTurnTimer(r) ==
    [r EXCEPT !.turnTimers = {t \in r.turnTimers : ~t.handle}]

\* startTurnTimer: the new timeout becomes the one room.turnTimer refers to
startTurnTimer(r, i) ==
    [r EXCEPT !.turnTimers =
        {[t EXCEPT !.handle = FALSE] : t \in r.turnTimers}
        \cup {[player |-> r.players[i].id, seat |-> r.players[i].seatIndex,
               handle |-> TRUE]}]

PlayerIdx(r) == 1..Len(r.players)

\* the chips of every seated player, by socket id
chipsById(r) ==
    [id \in {r.players[i].id : i \in PlayerIdx(r)} |->
        r.players[IndexOfId(r.players, id)].chips]

\* the JS value null
Null == << "null" >>

\* the entry of publicPlayers (lines 31-44) for player p, its cards given
publicPlayer(r, p, cards) ==
    [id |-> p.id, chips |-> p.chips, seatIndex |-> p.seatIndex, status |-> p.status,
     bet |-> p.currentBet,
     isDealer |-> p.seatIndex = r.dealerIndex,
     isSB |-> p.seatIndex = r.sbIndex,
     isBB |-> p.seatIndex = r.bbIndex,
     isTurn |-> r.gameStatus = "playing" /\ p.seatIndex = r.currentTurnIndex,
     cards |-> cards,
     hasCards |-> Len(p.hand) > 0]

\* the roomStateUpdate message with the given publicPlayers (lines 46-54)
roomStateUpdate(r, publicPlayers) ==
    [status |-> r.gameStatus, communityCards |-> r.communityCards, pot |-> r.pot,
     currentBet |-> r.highestBet, players |-> publicPlayers,
     minPlayers |-> r.minPlayers]

\* broadcastRoomState showing the cards in every status: C13 fails with it
broadcastRoomState_Always(r) ==
    roomStateUpdate(r, [i \in PlayerIdx(r) |->
        publicPlayer(r, r.players[i], r.players[i].hand)])

\* broadcastRoomState: the message sent to every socket of the room
broadcastRoomState(r) ==
    roomStateUpdate(r, [i \in PlayerIdx(r) |->
        publicPlayer(r, r.players[i],
                     IF r.gameStatus = "showdown" THEN r.players[i].hand ELSE Null)])

\* endHand: candidates, award of the pot, the reset timeout.  With no
\* candidate results is empty: results[0] is undefined, the callback of
\* results.filter (line 207) is never called, winners is empty and nobody is
\* paid; the result is sent and the reset is scheduled as for any showdown.
\* preAward keeps the chips each player had when endHand was entered.
endHandCandidates(r) ==
    {i \in PlayerIdx(r) : r.players[i].status # "folded" /\ r.players[i].hand # <<>>}

handScore(r, i) == evaluateHand(r.players[i].hand, r.communityCards)

\* winnersAt keeping the lowest scores: C6 fails with it
winnersAt_Lowest(r, cand, best) ==
    {i \in cand : \A j \in cand : handScore(r, i) <= handScore(r, j)}

\* lines 205-206: the candidates whose score is the best score
winnersAt(r, cand, best) == {i \in cand : handScore(r, i) = best}

endHandWinners(r) ==
    winnersAt(r, endHandCandidates(r),
              SeqMax({handScore(r, i) : i \in endHandCandidates(r)}))

\* lines 196-218: each winner is paid amount, the result is sent and the
\* reset timeout is scheduled
award(r1, winners, amount, kind) ==
    [r1 EXCEPT
       !.players = [i \in PlayerIdx(r1) |->
           IF i \in winners
           THEN [r1.players[i] EXCEPT !.chips = @ + amount]
           ELSE r1.players[i]],
       !.handResult = [kind |-> kind,
                       winners |-> {r1.players[i].id : i \in winners},
                       pot |-> r1.pot],
       !.resetTimers = @ + 1]

\* splitPot paying the whole pot to each winner: C7 fails with it
splitPot_Whole(r1, winners) == award(r1, winners, r1.pot, "showdown")

\* lines 208-218: the pot is split between the winners, rounded down
splitPot(r1, winners) ==
    award(r1, winners, r1.pot \div Cardinality(winners), "showdown")

settleHand(r1, cand) ==
    IF cand = {} THEN award(r1, {}, 0, "showdown")
    ELSE IF Cardinality(cand) = 1 THEN award(r1, cand, r1.pot, "folded")
    ELSE splitPot(r1, endHandWinners(r1))

endHand(r) ==
    settleHand(clearTurnTimer([r EXCEPT !.gameStatus = "showdown",
                                        !.preAward = chipsById(r)]),
               endHandCandidates(r))

\* nextStreet, lines 139-146: gather the bets into the pot
gatherBets(r) ==
    [r EXCEPT
       !.pot = @ + SumSeq([i \in PlayerIdx(r) |-> r.players[i].currentBet]),
       !.players = [i \in PlayerIdx(r) |->
           [r.players[i] EXCEPT !.currentBet = 0, !.actedInRound = FALSE]],
       !.highestBet = 0,
       !.lastRaiseAmount = BIG_BLIND]

\* communityCards.push(deck.deal()), n times
RECURSIVE pushCards(_, _)
pushCards(r, n) ==
    IF n = 0 THEN r
    ELSE pushCards([r EXCEPT !.communityCards = Append(@, dealCard(r.deck)),
                             !.deck = dealRest(r.deck)], n - 1)

\* line 150: one card is popped by the test, then three are dealt
dealFlop(r) ==
    pushCards([r EXCEPT !.communityCards = <<>>, !.deck = dealRest(r.deck)], 3)

\* lines 148-160: the cards of the street that opens
dealStreet(r1) ==
    CASE r1.roundName = "preflop" -> dealFlop([r1 EXCEPT !.roundName = "flop"])
      [] r1.roundName = "flop" -> pushCards([r1 EXCEPT !.roundName = "turn"], 1)
      [] r1.roundName = "turn" -> pushCards([r1 EXCEPT !.roundName = "river"], 1)
      [] OTHER -> r1

\* line 163: the turn is put just before the seat after the button
beforeFirstSeat(r2) ==
    [r2 EXCEPT !.currentTurnIndex = ((r2.dealerIndex + 1) % MaxSeats) - 1]

\* lines 169-172: the board is run out to five cards
runOut(r3) ==
    pushCards(r3, IF Len(r3.communityCards) < 5 THEN 5 - Len(r3.communityCards) ELSE 0)

RECURSIVE nextTurn(_), checkRoundEnd(_), nextStreet(_)

\* lines 62-79 of nextTurn, after the timer is cleared
passTurn(r1) ==
    LET eligible(k) ==
            LET i == IndexOfSeat(r1.players, (r1.currentTurnIndex + 1 + k) % MaxSeats)
            IN i # 0 /\ r1.players[i].status = "active" /\ r1.players[i].chips > 0
        K == {k \in 0..(MaxSeats - 1) : eligible(k)}
    IN IF K # {}
       THEN startTurnTimer(
                [r1 EXCEPT !.currentTurnIndex = (r1.currentTurnIndex + 1 + SeqMin(K)) % MaxSeats],
                IndexOfSeat(r1.players, (r1.currentTurnIndex + 1 + SeqMin(K)) % MaxSeats))
       ELSE checkRoundEnd(r1).room

nextTurn(r) ==
    IF r.gameStatus # "playing" THEN r ELSE passTurn(clearTurnTimer(r))

\* lines 166-178 of nextStreet
openStreet(r3) ==
    IF Cardinality({i \in PlayerIdx(r3) : r3.players[i].status = "active"}) < 2
    THEN endHand(runOut(r3))
    ELSE nextTurn(r3)

\* lines 148-178 of nextStreet, after the bets are gathered
afterGather(r1) ==
    IF r1.roundName = "river" THEN endHand(r1)
    ELSE openStreet(beforeFirstSeat(dealStreet(r1)))

nextStreet(r) == afterGather(gatherBets(r))

\* checkRoundEnd: the room after the call, and the value returned
checkRoundEnd(r) ==
    IF r.gameStatus # "playing" THEN [room |-> r, closed |-> TRUE]
    ELSE LET bettingPlayers == {i \in PlayerIdx(r) : r.players[i].status = "active"}
             foldedCount == Cardinality({i \in PlayerIdx(r) : r.players[i].status = "folded"})
             totalInHand == Cardinality({i \in PlayerIdx(r) : r.players[i].hand # <<>>})
             pendingAction == \E i \in bettingPlayers :
                                 \/ r.players[i].actedInRound = FALSE
                                 \/ r.players[i].currentBet < r.highestBet
         IN IF totalInHand - foldedCount = 1
            THEN [room |-> endHand(r), closed |-> TRUE]
            ELSE IF ~pendingAction
            THEN [room |-> nextStreet(r), closed |-> TRUE]
            ELSE [room |-> r, closed |-> FALSE]

\* lines 267-273: the button moves to the next occupied seat, nine probes at most
nextDealer(r) ==
    LET J == {j \in 1..MaxSeats :
                 IndexOfSeat(r.players, (r.dealerIndex + j) % MaxSeats) # 0}
    IN IF J = {} THEN (r.dealerIndex + MaxSeats) % MaxSeats
       ELSE (r.dealerIndex + SeqMin(J)) % MaxSeats

\* line 276
playersInHand(r) == {i \in PlayerIdx(r) : r.players[i].chips > 0}

\* lines 298-309: the dealt-in player in the first seat after fromIndex
getNextPlayer(r, inHand, fromIndex) ==
    LET J == {j \in 1..MaxSeats :
                 \E i \in inHand : r.players[i].seatIndex = (fromIndex + j) % MaxSeats}
        lowest == CHOOSE i \in inHand :
                     \A o \in inHand : r.players[i].seatIndex <= r.players[o].seatIndex
    IN IF J = {} THEN lowest
       ELSE CHOOSE i \in inHand :
               r.players[i].seatIndex = (fromIndex + SeqMin(J)) % MaxSeats

\* lines 284-291: two cards each, in the order of room.players
dealHoleCards(r, inHand) ==
    LET nth(i) == Cardinality({o \in inHand : o < i})
    IN [r EXCEPT
          !.players = [i \in PlayerIdx(r) |->
              IF i \in inHand
              THEN [r.players[i] EXCEPT
                      !.status = "active",
                      !.hand = << Shuffles[r.deck.shuffle][r.deck.n - 2 * nth(i)],
                                  Shuffles[r.deck.shuffle][r.deck.n - 2 * nth(i) - 1] >>,
                      !.currentBet = 0,
                      !.actedInRound = FALSE]
              ELSE r.players[i]],
          !.deck = [r.deck EXCEPT !.n = @ - 2 * Cardinality(inHand)]]

\* lines 318-327: a forced bet of min(chips, blind)
postBlind(r, i, blind) ==
    LET amt == IF r.players[i].chips < blind THEN r.players[i].chips ELSE blind
    IN [r EXCEPT !.players[i].chips = @ - amt, !.players[i].currentBet = amt]

\* lines 311-337: the blinds are posted and the first turn is given
openBetting(r4, inHand, bbPlayer) ==
    startTurnTimer(
        [r4 EXCEPT !.highestBet = BIG_BLIND,
                   !.lastRaiseAmount = BIG_BLIND,
                   !.currentTurnIndex =
                       r4.players[getNextPlayer(r4, inHand, r4.players[bbPlayer].seatIndex)].seatIndex,
                   !.hands = @ + 1,
                   !.raises = 0,
                   !.quiet = TRUE,
                   !.rebought = FALSE],
        getNextPlayer(r4, inHand, r4.players[bbPlayer].seatIndex))

takeBlinds(r2, inHand, sbPlayer, bbPlayer) ==
    openBetting(
        postBlind(postBlind([r2 EXCEPT !.sbIndex = r2.players[sbPlayer].seatIndex,
                                       !.bbIndex = r2.players[bbPlayer].seatIndex,
                                       !.startChips = chipsById(r2)],
                            sbPlayer, SMALL_BLIND),
                  bbPlayer, BIG_BLIND),
        inHand, bbPlayer)

\* lines 293-316: the small blind is the dealt-in player after the dealer; the
\* big blind is the next one, or the dealer when two are dealt in
seatBlinds(r2, inHand, dealer, sbPlayer) ==
    takeBlinds(r2, inHand, sbPlayer,
               IF Cardinality(inHand) = 2 THEN dealer
               ELSE getNextPlayer(r2, inHand, r2.players[sbPlayer].seatIndex))

\* lines 293-296: the dealt-in player on the button, else the lowest seat
dealerOf(r2, inHand) ==
    IF \E i \in inHand : r2.players[i].seatIndex = r2.dealerIndex
    THEN CHOOSE i \in inHand : r2.players[i].seatIndex = r2.dealerIndex
    ELSE CHOOSE i \in inHand :
            \A o \in inHand : r2.players[i].seatIndex <= r2.players[o].seatIndex

fromDealer(r2, inHand, dealer) ==
    seatBlinds(r2, inHand, dealer,
               getNextPlayer(r2, inHand, r2.players[dealer].seatIndex))

\* lines 276-337 of startGame
dealIn(r1, inHand) ==
    IF Cardinality(inHand) < 2 THEN [r1 EXCEPT !.gameStatus = "waiting"]
    ELSE fromDealer(dealHoleCards(r1, inHand), inHand, dealerOf(r1, inHand))

\* lines 267-273 of startGame
moveButton(r0) == [r0 EXCEPT !.dealerIndex = nextDealer(r0)]

dealFrom(r1) == dealIn(r1, playersInHand(r1))

\* startGame with the shuffle k of the new Deck
startGame(r, k) ==
    dealFrom(moveButton([r EXCEPT !.gameStatus = "playing", !.deck = Deck(k),
                                  !.pot = 0, !.communityCards = <<>>,
                                  !.highestBet = 0, !.roundName = "preflop"]))

\* startNextHandOrWait: the reset after the results delay
startNextHandOrWait(r, k) ==
    LET r1 == [r EXCEPT
                 !.players = [i \in PlayerIdx(r) |->
                     [r.players[i] EXCEPT
                        !.hand = <<>>, !.currentBet = 0, !.actedInRound = FALSE,
                        !.status = IF r.players[i].chips > 0 THEN "waiting" ELSE "busted"]],
                 !.pot = 0,
                 !.communityCards = <<>>,
                 !.gameStatus = "waiting"]
        readyPlayers == {i \in PlayerIdx(r1) :
                            r1.players[i].status \in {"waiting", "active", "ready"}}
        playersWithChips == {i \in readyPlayers : r1.players[i].chips > 0}
    IN IF Cardinality(playersWithChips) >= r1.minPlayers
       THEN startGame(r1, k)
       ELSE r1

\* a check that is ignored when a call is owed: C26 fails with it
checked_Ignored(r, i) == r

\* lines 353-360: a check folds the player when a call is owed
checked(r, i) ==
    IF r.highestBet - r.players[i].currentBet > 0
    THEN [r EXCEPT !.players[i].status = "folded"]
    ELSE r

\* no minimum: a raise may be sent for the bet to call
minTotal_Call(r) == r.highestBet

\* line 372: the lowest total a raise may be sent for
minTotal(r) ==
    r.highestBet + (IF r.lastRaiseAmount = 0 THEN BIG_BLIND ELSE r.lastRaiseAmount)

\* handlePlayerAction, lines 348-415: the change one action makes to the
\* player at index i and to the bet level.  amount is <<n>> for the integer
\* n, or <<>> when parseInt gives NaN
applyAction(r, i, action, amount) ==
    LET player == r.players[i]
        toCall == r.highestBet - player.currentBet
        others(q) == [j \in PlayerIdx(q) |->
                        IF j # i /\ q.players[j].status = "active"
                        THEN [q.players[j] EXCEPT !.actedInRound = FALSE]
                        ELSE q.players[j]]
        reopen(q) == [q EXCEPT !.players = others(q)]
        acted ==
          CASE action = "fold" -> [r EXCEPT !.players[i].status = "folded"]
            [] action = "check" -> checked(r, i)
            [] action = "call" ->
                 LET contribution == IF player.chips < toCall THEN player.chips ELSE toCall
                 IN [r EXCEPT !.players[i].chips = @ - contribution,
                              !.players[i].currentBet = @ + contribution,
                              !.players[i].status =
                                  IF player.chips - contribution = 0 THEN "all-in" ELSE @]
            [] action \in {"bet", "raise"} ->
                 LET parsed == IF amount = <<>> THEN r.highestBet + BIG_BLIND ELSE amount[1]
                     raiseTotal == IF parsed < minTotal(r)
                                      /\ parsed < player.chips + player.currentBet
                                   THEN minTotal(r) ELSE parsed
                     needed == raiseTotal - player.currentBet
                     actualBet == player.chips + player.currentBet
                 IN IF needed > player.chips
                    THEN reopen([r EXCEPT
                            !.players[i].chips = 0,
                            !.players[i].currentBet = actualBet,
                            !.players[i].status = "all-in",
                            !.lastRaiseAmount =
                                IF actualBet > r.highestBet THEN actualBet - r.highestBet ELSE @,
                            !.highestBet =
                                IF actualBet > r.highestBet THEN actualBet ELSE @])
                    ELSE reopen([r EXCEPT
                            !.players[i].chips = @ - needed,
                            !.players[i].currentBet = @ + needed,
                            !.lastRaiseAmount =
                                IF player.currentBet + needed - r.highestBet > 0
                                THEN player.currentBet + needed - r.highestBet ELSE @,
                            !.highestBet = player.currentBet + needed])
            [] action = "all-in" ->
                 LET total == player.chips + player.currentBet
                     shoved == [r EXCEPT !.players[i].chips = 0,
                                         !.players[i].currentBet = total,
                                         !.players[i].status = "all-in"]
                 IN IF total > r.highestBet
                    THEN reopen([shoved EXCEPT !.lastRaiseAmount = total - r.highestBet,
                                               !.highestBet = total])
                    ELSE shoved
            [] OTHER -> r
    IN [acted EXCEPT !.players[i].actedInRound = TRUE]

\* history: the raises and shoves of the hand, and whether only checks and
\* calls short of all-in were applied
noteAction(r2, i, action) ==
    [r2 EXCEPT
       !.raises = IF action \in {"bet", "raise", "all-in"} THEN @ + 1 ELSE @,
       !.quiet = @ /\ i # 0 /\ action \in {"check", "call"}
                   /\ r2.players[i].status = "active"]

\* lines 417-422: if (!checkRoundEnd(room)) nextTurn(room)
afterAction(ended) ==
    IF ended.closed THEN ended.room ELSE nextTurn(ended.room)

\* lines 346-422, for the player at index i (0: no longer in room.players)
actBy(r1, i, action, amount) ==
    afterAction(checkRoundEnd(
        noteAction(IF i = 0 THEN r1 ELSE applyAction(r1, i, action, amount),
                   i, action)))

\* handlePlayerAction without the test of line 344: C4 fails with it
handlePlayerAction_AnySeat(r, id, seat, action, amount) ==
    IF r.gameStatus # "playing" THEN r
    ELSE actBy(clearTurnTimer(r), IndexOfId(r.players, id), action, amount)

\* handlePlayerAction(room, player, data); the player object is given by its
\* socket id and its seatIndex
handlePlayerAction(r, id, seat, action, amount) ==
    IF r.gameStatus # "playing" THEN r
    ELSE IF seat # r.currentTurnIndex THEN r
    ELSE actBy(clearTurnTimer(r), IndexOfId(r.players, id), action, amount)

(* ------------------------------- state --------------------------------- *)
VARIABLES
    room,       \* the room object, the timeouts it has scheduled, and history
    sockets     \* socket id -> "new", "joined" or "gone"

vars == << room, sockets >>

\* the fields of the room object
players == room.players
gameStatus == room.gameStatus
minPlayers == room.minPlayers
dealerIndex == room.dealerIndex
pot == room.pot
communityCards == room.communityCards
deck == room.deck
highestBet == room.highestBet
roundName == room.roundName
lastRaiseAmount == room.lastRaiseAmount
sbIndex == room.sbIndex
bbIndex == room.bbIndex
currentTurnIndex == room.currentTurnIndex
\* the timeouts scheduled by startTurnTimer that have neither fired nor been
\* cleared; handle marks the one room.turnTimer refers to
turnTimers == room.turnTimers
\* the number of timeouts scheduled by endHand that have not fired
resetTimers == room.resetTimers
\* the last handResult message sent
handResult == room.handResult
\* history: chips by socket id when endHand was entered
preAward == room.preAward
\* history: chips by socket id when the hand was dealt
startChips == room.startChips
\* history: hands dealt; raises and shoves applied in this hand; only checks
\* and calls short of all-in applied in this hand; a rebuy granted since the
\* deal; why the first rejected action message was rejected
hands == room.hands
raises == room.raises
quiet == room.quiet
rebought == room.rebought
rejected == room.rejected

\* the room as the first joinRoom creates it (lines 435-445), nobody seated yet
NewRoom ==
               [players |-> <<>>, gameStatus |-> "waiting", minPlayers |-> MinPlayers,
               dealerIndex |-> 0, pot |-> 0, communityCards |-> <<>>, deck |-> NoDeck,
               highestBet |-> Undefined, roundName |-> "none",
               lastRaiseAmount |-> Undefined, sbIndex |-> Undefined,
               bbIndex |-> Undefined, currentTurnIndex |-> Undefined,
               turnTimers |-> {}, resetTimers |-> 0,
               handResult |-> [kind |-> "none", winners |-> {}, pot |-> 0],
               preAward |-> << >>, startChips |-> << >>,
               hands |-> 0, raises |-> 0, quiet |-> FALSE, rebought |-> FALSE,
               rejected |-> "none"]

Init ==
    /\ room = NewRoom
    /\ sockets = [s \in Sockets |-> "new"]

\* the same table with MaxJoiners sockets connecting to it
InitSeats ==
    /\ room = NewRoom
    /\ sockets = [s \in 1..MaxJoiners |-> "new"]

\* the same table with LateSockets sockets connecting to it
InitLate ==
    /\ room = NewRoom
    /\ sockets = [s \in 1..LateSockets |-> "new"]

(* ---------------------------- the clients ------------------------------ *)
\* What the clients of a specification send: the kinds of action, the amounts
\* of a raise, the raises and shoves in a hand, the hands played to the end,
\* the disconnects, and whether a rejected action message is recorded.
General == [kinds |-> {"fold", "check", "call", "raise", "all-in"},
            amounts |-> {"none", "stack"}, raises |-> MaxRaises,
            hands |-> MaxHands, gone |-> 0, log |-> FALSE]
Shove == [kinds |-> {"fold", "raise"},
          amounts |-> {"stack"}, raises |-> ShoveRaises,
          hands |-> MaxHands, gone |-> MaxDisconnects, log |-> FALSE]
Short == [kinds |-> {"fold", "check", "raise"},
          amounts |-> {"stack", "under"}, raises |-> ShoveRaises,
          hands |-> ShortHands, gone |-> 0, log |-> FALSE]
Calm == [kinds |-> {"check", "call"},
         amounts |-> {}, raises |-> 0,
         hands |-> MaxHands, gone |-> 0, log |-> FALSE]
Passive == [kinds |-> {"fold", "check", "call"},
            amounts |-> {}, raises |-> 0,
            hands |-> MaxHands, gone |-> MaxDisconnects, log |-> TRUE]
Seats == [kinds |-> {"fold"},
          amounts |-> {}, raises |-> 0,
          hands |-> MaxHands, gone |-> SeatLeavers, log |-> FALSE]
Bust == [kinds |-> {"fold", "all-in"},
         amounts |-> {}, raises |-> BustShoves,
         hands |-> BustHands, gone |-> 0, log |-> FALSE]

\* the model follows the table until the hand after the last one played is dealt
Done(P) == room.hands > P.hands

\* the amounts sent with a raise: none (parseInt gives NaN), the sender's
\* whole stack, or one chip less
Amounts(P, s) ==
    LET i == IndexOfId(players, s)
    IN (IF "none" \in P.amounts THEN {<<>>} ELSE {}) \cup
       (IF i # 0 /\ "stack" \in P.amounts
        THEN {<< players[i].chips + players[i].currentBet >>} ELSE {}) \cup
       (IF i # 0 /\ "under" \in P.amounts
        THEN {<< players[i].chips + players[i].currentBet - 1 >>} ELSE {})

(* ------------------------------ handlers ------------------------------- *)
\* JoinRoom seating the joiner at seat players.length: C11 fails with it
JoinRoom_NextSeat(P, s) ==
    /\ ~Done(P)
    /\ sockets[s] = "new"
    /\ \A o \in DOMAIN sockets : o < s => sockets[o] # "new"
    /\ sockets' = [sockets EXCEPT ![s] = "joined"]
    /\ IF Len(players) >= MaxSeats
       THEN room' = room
       ELSE room' = [room EXCEPT !.players = Append(@, NewPlayer(s, Len(players)))]

\* socket.on('joinRoom'); sockets connect in the order of their ids
JoinRoom(P, s) ==
    /\ ~Done(P)
    /\ sockets[s] = "new"
    /\ \A o \in DOMAIN sockets : o < s => sockets[o] # "new"
    /\ sockets' = [sockets EXCEPT ![s] = "joined"]
    /\ IF Len(players) >= MaxSeats
       THEN room' = room
       ELSE LET takenSeats == {players[i].seatIndex : i \in 1..Len(players)}
                seat == SeqMin({n \in 0..MaxSeats : n \notin takenSeats})
            IN room' = [room EXCEPT !.players = Append(@, NewPlayer(s, seat))]

\* StartGameRequest without the test of line 483: C9 fails with it
StartGameRequest_AnyStatus(P, s) ==
    /\ ~Done(P)
    /\ IndexOfId(players, s) # 0
    /\ Len(players) >= minPlayers
    /\ \E k \in 1..Len(Shuffles) : room' = startGame(room, k)
    /\ UNCHANGED sockets

\* socket.on('startGameRequest')
StartGameRequest(P, s) ==
    /\ ~Done(P)
    /\ gameStatus = "waiting"
    /\ IndexOfId(players, s) # 0
    /\ Len(players) >= minPlayers
    /\ \E k \in 1..Len(Shuffles) : room' = startGame(room, k)
    /\ UNCHANGED sockets

seatOf(s) == players[IndexOfId(players, s)].seatIndex

\* history: why handlePlayerAction will reject the message, for the first
\* message it rejects
noteMessage(P, r, seat) ==
    IF ~P.log \/ r.rejected # "none" THEN r
    ELSE IF r.gameStatus # "playing" THEN [r EXCEPT !.rejected = "notPlaying"]
    ELSE IF seat # r.currentTurnIndex THEN [r EXCEPT !.rejected = "outOfTurn"]
    ELSE r

\* socket.on('action')
Action(P, s, kind, amount) ==
    /\ ~Done(P)
    /\ IndexOfId(players, s) # 0
    /\ kind \in {"bet", "raise", "all-in"} => raises < P.raises
    /\ room' = handlePlayerAction(noteMessage(P, room, seatOf(s)), s, seatOf(s),
                                  kind, amount)
    /\ UNCHANGED sockets

\* the timeout of startTurnTimer fires
TurnTimeout(P) ==
    /\ ~Done(P)
    /\ \E t \in turnTimers :
          room' = handlePlayerAction([room EXCEPT !.turnTimers = @ \ {t}],
                                     t.player, t.seat, "fold", <<>>)
    /\ UNCHANGED sockets

\* the timeout of endHand fires
ResetTimeout(P) ==
    /\ ~Done(P)
    /\ resetTimers > 0
    /\ \E k \in 1..Len(Shuffles) :
          room' = startNextHandOrWait([room EXCEPT !.resetTimers = @ - 1], k)
    /\ UNCHANGED sockets

\* requestRebuy without the test of the status at line 512: C12 fails with it
requestRebuy_AnyStatus(r, i) ==
    IF r.players[i].chips <= 0
    THEN [r EXCEPT !.players[i].chips = @ + REBUY_CHIPS, !.rebought = TRUE]
    ELSE r

\* lines 504-526 of the requestRebuy handler, for the player at index i
requestRebuy(r, i) ==
    IF r.gameStatus # "waiting" /\ r.gameStatus # "showdown"
    THEN IF r.players[i].chips = 0 /\ r.players[i].status \in {"busted", "waiting"}
         THEN [r EXCEPT !.players[i].chips = @ + REBUY_CHIPS,
                        !.players[i].status = "waiting",
                        !.rebought = TRUE]
         ELSE r
    ELSE IF r.players[i].chips <= 0
         THEN [r EXCEPT !.players[i].chips = @ + REBUY_CHIPS,
                        !.rebought = TRUE]
         ELSE r

\* socket.on('requestRebuy')
RequestRebuy(P, s) ==
    /\ ~Done(P)
    /\ IndexOfId(players, s) # 0
    /\ room' = requestRebuy(room, IndexOfId(players, s))
    /\ UNCHANGED sockets

\* room.players.splice(pIndex, 1)
splice(ps, pIndex) == SubSeq(ps, 1, pIndex - 1) \o SubSeq(ps, pIndex + 1, Len(ps))

\* line 537: player.status = 'folded'
markFolded(r, pIndex) ==
    [r EXCEPT !.players[pIndex].status = "folded", !.quiet = FALSE]

\* lines 538-540: the leaver acts if the turn is theirs
foldOnLeave(r1, s, seat) ==
    IF seat = r1.currentTurnIndex
    THEN handlePlayerAction(r1, s, seat, "fold", <<>>)
    ELSE r1

\* line 543: the leaver is removed from room.players
leave(r2, pIndex) == [r2 EXCEPT !.players = splice(@, pIndex)]

\* socket.on('disconnect')
Disconnect(P, s) ==
    /\ ~Done(P)
    /\ IndexOfId(players, s) # 0
    /\ Cardinality({o \in DOMAIN sockets : sockets[o] = "gone"}) < P.gone
    /\ sockets' = [sockets EXCEPT ![s] = "gone"]
    /\ room' = leave(IF gameStatus = "playing"
                     THEN foldOnLeave(markFolded(room, IndexOfId(players, s)), s, seatOf(s))
                     ELSE room,
                     IndexOfId(players, s))

Stay(P) ==
    \/ \E s \in DOMAIN sockets : JoinRoom(P, s)
    \/ \E s \in DOMAIN sockets : StartGameRequest(P, s)
    \/ \E s \in DOMAIN sockets : \E kind \in P.kinds :
          \E amount \in (IF kind = "raise" THEN Amounts(P, s) ELSE {<<>>}) :
             Action(P, s, kind, amount)
    \/ TurnTimeout(P)
    \/ ResetTimeout(P)
    \/ \E s \in DOMAIN sockets : RequestRebuy(P, s)

Leave(P) == \E s \in DOMAIN sockets : Disconnect(P, s)

Next == Stay(General)
NextShove == Stay(Shove) \/ Leave(Shove)
NextShort == Stay(Short)
NextCalm == Stay(Calm)
NextPassive == Stay(Passive) \/ Leave(Passive)
NextSeats == Stay(Seats) \/ Leave(Seats)
NextBust == Stay(Bust)

Spec == Init /\ [][Next]_vars
SpecShove == Init /\ [][NextShove]_vars
SpecShort == Init /\ [][NextShort]_vars
SpecCalm == Init /\ [][NextCalm]_vars
SpecPassive == Init /\ [][NextPassive]_vars
SpecSeats == InitSeats /\ [][NextSeats]_vars
SpecBust == Init /\ [][NextBust]_vars
SpecLate == InitLate /\ [][NextShove]_vars

(* --------------------------- the evaluator alone ----------------------- *)
\* SpecEval: evaluateHand is called on two hole cards and five community
\* cards taken from a pool of cards, in the order of the pool.  The first
\* pool holds a straight flush with a higher card of its suit, four of a kind
\* and full houses; the second holds the wheel A-2-3-4-5 with pairs, a six
\* and unrelated cards (suits: 1 spades, 2 hearts, 3 diamonds, 4 clubs).
MadePool ==
    << Card(14,1), Card(9,1), Card(8,1), Card(7,1), Card(6,1), Card(5,1),
       Card(9,2), Card(9,3), Card(9,4), Card(8,2) >>
WheelPool ==
    << Card(14,1), Card(2,3), Card(3,4), Card(4,2), Card(5,1), Card(9,3),
       Card(13,4), Card(6,2), Card(14,2), Card(5,3) >>

RECURSIVE pick(_, _, _)
pick(pool, I, n) ==
    IF n > Len(pool) THEN <<>>
    ELSE (IF n \in I THEN <<pool[n]>> ELSE <<>>) \o pick(pool, I, n + 1)

\* the inputs drawn from a pool: hole cards, community cards
dealtFrom(pool) ==
    {[holeCards |-> SubSeq(pick(pool, I, 1), 1, 2),
      communityCards |-> SubSeq(pick(pool, I, 1), 3, 7)] :
        I \in {J \in SUBSET (1..Len(pool)) : Cardinality(J) = 7}}

Inputs == dealtFrom(MadePool) \cup dealtFrom(WheelPool)

InitEval ==
    /\ room \in {[holeCards |-> in.holeCards, communityCards |-> in.communityCards,
                   score |-> Undefined] : in \in Inputs}
    /\ sockets = << >>

\* evaluateHand(holeCards, communityCards).score
Evaluate ==
    /\ room.score = Undefined
    /\ room' = [room EXCEPT !.score = evaluateHand(room.holeCards, room.communityCards)]
    /\ UNCHANGED sockets

NextEval == Evaluate

SpecEval == InitEval /\ [][NextEval]_vars

(* ------------------------------ properties ----------------------------- *)
\* the chips a table holds: the stacks, the bets of the street, and the pot
\* while the hand is played (endHand pays the pot out and leaves the amount
\* in room.pot until the reset)
Held(r) ==
    SumSeq([i \in PlayerIdx(r) |-> r.players[i].chips + r.players[i].currentBet])
    + (IF r.gameStatus = "playing" THEN r.pot ELSE 0)

\* C1: from the deal until the table is back in 'waiting', no event other
\* than a rebuy changes sum(chips) + pot + sum(currentBet).
C1_ChipConservation ==
    [][(gameStatus \in {"playing", "showdown"} /\ ~room'.rebought)
          => Held(room') = Held(room)]_vars

\* C2: while gameStatus is 'playing', the seat named by currentTurnIndex holds
\* a player whose status is 'active' and whose chips are positive.
C2_TurnLegality ==
    gameStatus = "playing" =>
        \E i \in PlayerIdx(room) :
            /\ players[i].seatIndex = currentTurnIndex
            /\ players[i].status = "active"
            /\ players[i].chips > 0

\* the table when the action of the player at the turn has been applied and
\* checkRoundEnd has not yet run
Applied(s, kind, amount) ==
    applyAction(clearTurnTimer(room), IndexOfId(players, s), kind, amount)

nonFolded(r) ==
    {i \in PlayerIdx(r) : r.players[i].hand # <<>> /\ r.players[i].status # "folded"}

settled(r) ==
    \A i \in PlayerIdx(r) :
        r.players[i].status = "active" =>
            r.players[i].actedInRound /\ r.players[i].currentBet = r.highestBet

RoundClosure(mid, q) ==
    Cardinality(nonFolded(mid)) >= 2 =>
        /\ (\/ q.roundName # mid.roundName
            \/ (q.gameStatus = "showdown" /\ mid.roundName = "river")) <=> settled(mid)
        /\ ~settled(mid) =>
              q.roundName = mid.roundName /\ q.communityCards = mid.communityCards

\* C3: after an applied action that leaves two or more non-folded dealt-in
\* players, the street advances (or the river goes to showdown) if and only
\* if every 'active' player has acted and has currentBet = highestBet; when
\* one has not, the street and the community cards stay as they are.
C3_RoundClosure ==
    [][\A s \in Sockets : \A kind \in Short.kinds : \A amount \in {<<>>} \cup Amounts(Short, s) :
          (/\ gameStatus = "playing"
           /\ IndexOfId(players, s) # 0
           /\ seatOf(s) = currentTurnIndex
           /\ Action(Short, s, kind, amount))
          => RoundClosure(Applied(s, kind, amount), room')]_vars

\* the chips, and the chips plus the bet of the street, of the player with
\* socket id
chipsOf(r, id) == r.players[IndexOfId(r.players, id)].chips
stakeOf(r, id) ==
    r.players[IndexOfId(r.players, id)].chips + r.players[IndexOfId(r.players, id)].currentBet

seated(r) == {r.players[i].id : i \in PlayerIdx(r)}

RECURSIVE SumOver(_, _)
SumOver(f, S) ==
    IF S = {} THEN 0
    ELSE LET x == CHOOSE y \in S : TRUE IN f[x] + SumOver(f, S \ {x})

\* the fields of the table and its pending timers
TableOf(r) ==
    [players |-> r.players, gameStatus |-> r.gameStatus, minPlayers |-> r.minPlayers,
     dealerIndex |-> r.dealerIndex, pot |-> r.pot, communityCards |-> r.communityCards,
     deck |-> r.deck, highestBet |-> r.highestBet, roundName |-> r.roundName,
     lastRaiseAmount |-> r.lastRaiseAmount, sbIndex |-> r.sbIndex, bbIndex |-> r.bbIndex,
     currentTurnIndex |-> r.currentTurnIndex, turnTimers |-> r.turnTimers,
     resetTimers |-> r.resetTimers]

\* C4: an action message from a player whose seat is not currentTurnIndex, or
\* received while gameStatus is not 'playing', changes no field of the table
\* and leaves the pending turn timer as it is.
C4_RejectedAction ==
    [][room'.rejected # room.rejected => TableOf(room') = TableOf(room)]_vars

\* a hand is being played and a message was rejected for coming out of turn
C4_Witness == rejected = "outOfTurn" /\ gameStatus = "playing" /\ turnTimers # {}

\* C5: when a hand ends because all players but one have folded, the one left
\* has, after the reset, the chips they had before the hand plus every chip
\* the others committed in the hand, the bets and blinds of the last street
\* included.
C5_FoldWinTakesAll ==
    [][(/\ gameStatus = "showdown"
        /\ room'.gameStatus # "showdown"
        /\ handResult.kind = "folded"
        /\ ~rebought
        /\ DOMAIN startChips \subseteq seated(room'))
          => \A w \in handResult.winners :
                stakeOf(room', w) =
                    startChips[w]
                    + SumOver([o \in DOMAIN startChips |-> startChips[o] - stakeOf(room', o)],
                              DOMAIN startChips \ {w})]_vars

\* the candidates of a showdown with the highest score
scoreOf(r, i) == evaluateHand(r.players[i].hand, r.communityCards)
bestOf(r) ==
    UNION {{i \in nonFolded(r) : scoreOf(r, i) = top} :
              top \in {SeqMax({scoreOf(r, i) : i \in nonFolded(r)})}}

TakesAll(q, best) ==
    \A i \in {j \in PlayerIdx(q) : q.players[j].id \in DOMAIN q.startChips} :
        IF i \in best
        THEN q.players[i].chips =
                 q.startChips[q.players[i].id]
                 + SumOver([o \in DOMAIN q.startChips |-> q.startChips[o] - chipsOf(q, o)],
                           DOMAIN q.startChips \ {q.players[i].id})
        ELSE q.players[i].chips <= q.startChips[q.players[i].id]

\* C6: in a hand in which every dealt-in player checks or calls on every
\* street through the river and one candidate alone has the highest score,
\* that player has after the showdown the chips they had before the hand plus
\* what all the others put in, and no other player has more than before.
C6_CheckedDownHand ==
    [][(/\ gameStatus = "playing"
        /\ room'.gameStatus = "showdown"
        /\ room'.quiet
        /\ room'.roundName = "river"
        /\ DOMAIN room'.startChips \subseteq seated(room')
        /\ Cardinality(bestOf(room')) = 1)
          => \E best \in {bestOf(room')} : TakesAll(room', best)]_vars

\* five players checked and called to the river and one hand is the best
C6_Witness ==
    /\ gameStatus = "showdown"
    /\ quiet
    /\ roundName = "river"
    /\ Len(communityCards) = 5
    /\ Cardinality(nonFolded(room)) = MinPlayers
    /\ Cardinality(bestOf(room)) = 1

SplitPaid(q, best) ==
    \A i \in PlayerIdx(q) :
        q.players[i].chips =
            q.preAward[q.players[i].id]
            + (IF i \in best THEN q.pot \div Cardinality(best) ELSE 0)

\* C7: at a showdown with two or more candidates, exactly the k candidates
\* with the highest score have floor(pot / k) added to their chips, and the
\* chips of every other player are unchanged by the showdown.
C7_SplitPot ==
    [][(/\ gameStatus = "playing"
        /\ room'.gameStatus = "showdown"
        /\ Cardinality(nonFolded(room')) >= 2)
          => \E best \in {bestOf(room')} : SplitPaid(room', best)]_vars

\* several hands tie for the best and the pot does not divide evenly
C7_Witness ==
    /\ gameStatus = "showdown"
    /\ handResult.kind = "showdown"
    /\ Cardinality(handResult.winners) >= 2
    /\ handResult.pot % Cardinality(handResult.winners) # 0
    /\ {players[i].id : i \in bestOf(room)} = handResult.winners

\* the first seat clockwise of seat that holds an 'active' player with chips
eligibleAfter(q, seat) ==
    {k \in 1..MaxSeats :
        \E i \in PlayerIdx(q) : /\ q.players[i].seatIndex = (seat + k) % MaxSeats
                                /\ q.players[i].status = "active"
                                /\ q.players[i].chips > 0}

TurnPassed(q, s, seat) ==
    /\ s \notin seated(q)
    /\ \A t \in q.turnTimers : t.player # s
    /\ eligibleAfter(q, seat) # {}
    /\ q.currentTurnIndex = (seat + SeqMin(eligibleAfter(q, seat))) % MaxSeats
    /\ \E t \in q.turnTimers :
          /\ t.handle
          /\ t.seat = q.currentTurnIndex
          /\ IndexOfId(q.players, t.player) # 0
          /\ q.players[IndexOfId(q.players, t.player)].seatIndex = t.seat

\* C8: when the player at currentTurnIndex disconnects during a hand, two or
\* more non-folded players remain and the round is not closed, then in that
\* step the old turn timer is cancelled, the player is folded and removed,
\* currentTurnIndex becomes the first seat clockwise holding an 'active'
\* player with chips, and a fresh turn timer is armed for that player.
C8_DisconnectMidTurn ==
    [][\A s \in Sockets :
          (/\ gameStatus = "playing"
           /\ IndexOfId(players, s) # 0
           /\ seatOf(s) = currentTurnIndex
           /\ Cardinality(nonFolded(Applied(s, "fold", <<>>))) >= 2
           /\ ~settled(Applied(s, "fold", <<>>))
           /\ Disconnect(Shove, s))
          => TurnPassed(room', s, seatOf(s))]_vars

StatusCycle(r, q) ==
    /\ r.gameStatus = "waiting" /\ q.gameStatus # "waiting" => q.gameStatus = "playing"
    /\ r.gameStatus = "playing" /\ q.gameStatus # "playing" => q.gameStatus = "showdown"
    /\ r.gameStatus = "showdown" /\ q.gameStatus # "showdown" =>
          q.gameStatus \in {"waiting", "playing"} /\ q.resetTimers = r.resetTimers - 1
    /\ q.resetTimers < r.resetTimers => r.gameStatus = "showdown"
    /\ q.resetTimers <= 1

\* C9: gameStatus changes only along waiting -> playing -> showdown ->
\* waiting: 'showdown' is entered only from 'playing', 'showdown' is left only
\* by the reset callback (which sets 'waiting' and may deal the next hand at
\* once), the reset callback runs only while gameStatus is 'showdown', and at
\* most one reset callback is pending.
C9_StatusCycle == [][StatusCycle(room, room')]_vars

\* the table is back in 'waiting' after a hand and its reset
C9_Witness ==
    gameStatus = "waiting" /\ hands = 1 /\ handResult.kind # "none" /\ resetTimers = 0

\* C10: the table goes from 'waiting' to 'playing', by a start request or by
\* the reset callback, only if minPlayers or more seated players have chips.
C10_StartQuorum ==
    [][(gameStatus # "playing" /\ room'.gameStatus = "playing")
          => Cardinality({i \in PlayerIdx(room) : players[i].chips > 0}) >= minPlayers]_vars

\* the seats taken at a table
takenSeats(r) == {r.players[i].seatIndex : i \in PlayerIdx(r)}

SeatsDistinct(r) ==
    /\ \A i \in PlayerIdx(r) : r.players[i].seatIndex \in 0..(MaxSeats - 1)
    /\ \A i, j \in PlayerIdx(r) :
          i # j => r.players[i].seatIndex # r.players[j].seatIndex

\* the join of socket s took the table from r to q
Seated(r, q, s) ==
    IF Len(r.players) >= MaxSeats
    THEN q.players = r.players
    ELSE /\ Len(q.players) = Len(r.players) + 1
         /\ SubSeq(q.players, 1, Len(r.players)) = r.players
         /\ q.players[Len(q.players)].id = s
         /\ q.players[Len(q.players)].seatIndex \notin takenSeats(r)
         /\ \A n \in 0..(q.players[Len(q.players)].seatIndex - 1) : n \in takenSeats(r)

\* C11: after any joins and disconnects, in any phase of the game, no two
\* players share a seatIndex and every seatIndex is in 0..8; a join is given
\* the lowest seat not occupied, and a join to a table of 9 players leaves the
\* player list unchanged.
C11_SeatAssignment ==
    [][/\ SeatsDistinct(room')
       /\ \A s \in DOMAIN sockets :
             (sockets[s] = "new" /\ sockets'[s] = "joined") => Seated(room, room', s)]_vars

\* a hand is played at a full table that has turned a joiner away and has
\* seated a later joiner in the seat a leaver freed
C11_Witness ==
    /\ gameStatus = "playing"
    /\ Len(players) = MaxSeats
    /\ \E s, t \in DOMAIN sockets :
          /\ s < t
          /\ sockets[s] = "joined" /\ IndexOfId(players, s) = 0
          /\ IndexOfId(players, t) # 0
          /\ players[IndexOfId(players, t)].seatIndex < MaxSeats - 1

\* the rebuy request of the player at index i took the table from r to q:
\* nothing changed, or the player had no chips, was not dealt into a hand
\* being played, and has 200 chips and nothing else is changed
RebuyGranted(r, q, i) ==
    /\ r.players[i].chips = 0
    /\ r.gameStatus = "playing" =>
          r.players[i].hand = <<>> /\ r.players[i].status \in {"busted", "waiting"}
    /\ q.players[i].chips = 200
    /\ q = [r EXCEPT !.players[i].chips = 200,
                      !.players[i].status = q.players[i].status,
                      !.rebought = TRUE]
    /\ q.players[i].status \in {r.players[i].status, "waiting"}

\* C12: a rebuy request adds exactly 200 chips, and only to a player who has
\* no chips and is not dealt into a hand being played; a request from a
\* player with chips, or from a dealt-in player while the status is
\* 'playing', changes nothing.
C12_Rebuy ==
    \A i \in PlayerIdx(room) : \E q \in {requestRebuy(room, i)} :
        /\ (players[i].chips > 0 \/ (gameStatus = "playing" /\ players[i].hand # <<>>))
              => q = room
        /\ q # room => RebuyGranted(room, q, i)

\* during a hand a busted player has rebought, and a dealt-in player without
\* chips is refused
C12_Witness ==
    /\ gameStatus = "playing"
    /\ rebought
    /\ \E i \in PlayerIdx(room) :
          players[i].chips = REBUY_CHIPS /\ players[i].hand = <<>> /\ players[i].status = "waiting"
    /\ \E j \in PlayerIdx(room) :
          players[j].chips = 0 /\ players[j].hand # <<>> /\ requestRebuy(room, j) = room

\* the table of a run that differs only in the hole cards dealt: every card
\* in a hand is another card
otherCard(c) == Card(16 - c.value, 5 - c.suit)
reDealt(r) ==
    [r EXCEPT !.players = [i \in PlayerIdx(r) |->
        [r.players[i] EXCEPT !.hand = [k \in 1..Len(r.players[i].hand) |->
                                         otherCard(r.players[i].hand[k])]]]]

\* a broadcast sent from r before the showdown shows no hand and is the one
\* the other run sends
Hidden(r) ==
    r.gameStatus \in {"waiting", "playing"} =>
       /\ \A i \in PlayerIdx(r) : broadcastRoomState(r).players[i].cards = Null
       /\ broadcastRoomState(reDealt(r)) = broadcastRoomState(r)

\* C13: a table-state broadcast sent while the status is 'waiting' or
\* 'playing' carries cards = null for every player, so two runs that differ
\* only in the hole cards dealt send the same broadcasts until the showdown.
\* The broadcasts are those sent from the state a handler leaves and the one
\* sent at line 416, after the action is applied and before the round is
\* examined.
C13_HoleCardConfidentiality ==
    /\ Hidden(room)
    /\ \A s \in DOMAIN sockets : \A kind \in General.kinds :
          (gameStatus = "playing" /\ IndexOfId(players, s) # 0
                                  /\ seatOf(s) = currentTurnIndex)
             => Hidden(Applied(s, kind, <<>>))

\* five hands are dealt, the hand is played, and the other run holds other
\* cards
C13_Witness ==
    /\ gameStatus = "playing"
    /\ Len(players) = MinPlayers
    /\ \A i \in PlayerIdx(room) :
          /\ Len(players[i].hand) = 2
          /\ broadcastRoomState(room).players[i].hasCards
          /\ reDealt(room).players[i].hand # players[i].hand
    /\ raises > 0

\* C14: whenever the hand ends, after any actions, timeouts and disconnects,
\* there is at least one candidate (a dealt-in player who has not folded) and
\* the pot is awarded to somebody.
C14_PotAwarded ==
    [][(gameStatus = "playing" /\ room'.gameStatus = "showdown")
          => room'.handResult.winners # {}]_vars

\* the categories of a seven-card input, by the rules of poker
allSeven(in) == in.holeCards \o in.communityCards
holds(cards, v, u) == \E i \in 1..Len(cards) : cards[i] = Card(v, u)
ofRank(cards, v) == Cardinality({i \in 1..Len(cards) : cards[i].value = v})
ofSuit(cards, u) == Cardinality({i \in 1..Len(cards) : cards[i].suit = u})
containsStraightFlush(cards) ==
    \E u \in SUITS : \E high \in 5..14 :
        \A k \in 0..4 : holds(cards, IF high - k = 1 THEN 14 ELSE high - k, u)
containsQuads(cards) == \E v \in RANK_VALUE : ofRank(cards, v) = 4
containsFullHouse(cards) ==
    \E v, w \in RANK_VALUE : v # w /\ ofRank(cards, v) >= 3 /\ ofRank(cards, w) >= 2
containsFlush(cards) == \E u \in SUITS : ofSuit(cards, u) >= 5
bestIsQuads(cards) == containsQuads(cards) /\ ~containsStraightFlush(cards)
bestIsFullHouse(cards) ==
    containsFullHouse(cards) /\ ~containsQuads(cards) /\ ~containsStraightFlush(cards)

\* C15: of two inputs of 2 hole and 5 community cards, one that contains a
\* straight flush scores strictly more than one whose best category is four
\* of a kind, and one whose best category is four of a kind scores strictly
\* more than one whose best category is a full house.
C15_EvaluatorMonotonicity ==
    room.score # Undefined =>
       \A second \in Inputs :
          /\ (containsStraightFlush(allSeven(room)) /\ bestIsQuads(allSeven(second)))
                => room.score > evaluateHand(second.holeCards, second.communityCards)
          /\ (bestIsQuads(allSeven(room)) /\ bestIsFullHouse(allSeven(second)))
                => room.score > evaluateHand(second.holeCards, second.communityCards)

\* the input holds A, 2, 3, 4, 5 and no five consecutive ranks ending higher
wheelOnly(cards) ==
    /\ \A v \in {14, 2, 3, 4, 5} : ofRank(cards, v) > 0
    /\ \A high \in 6..14 : \E k \in 0..4 : ofRank(cards, high - k) = 0

\* C16: an input with no flush, no four of a kind and no full house that
\* holds A, 2, 3, 4, 5 and no higher run of five consecutive ranks scores 505,
\* the straight tier with high card 5.
C16_AceLowStraight ==
    (/\ room.score # Undefined
     /\ wheelOnly(allSeven(room))
     /\ ~containsFlush(allSeven(room))
     /\ ~containsQuads(allSeven(room))
     /\ ~containsFullHouse(allSeven(room)))
        => room.score = 505

\* hole A-spades 2-diamonds with community 3-clubs 4-hearts 5-spades
\* 9-diamonds K-clubs has been scored
C16_Witness ==
    /\ room.holeCards = << Card(14,1), Card(2,3) >>
    /\ room.communityCards = << Card(3,4), Card(4,2), Card(5,1), Card(9,3), Card(13,4) >>
    /\ room.score = 505

\* a player the turn can be given to (line 69 of nextTurn)
canAct(r) ==
    {i \in PlayerIdx(r) : r.players[i].status = "active" /\ r.players[i].chips > 0}

\* C17: a hand that is played goes on to the showdown, the turn timers firing
\* when the players do not act: there is no state with status 'playing' in
\* which no turn timer is pending and no player can act.  In such a state
\* nothing is scheduled and the hand stays 'playing' for as long as no client
\* sends a message.
C17_HandProgress ==
    ~(gameStatus = "playing" /\ turnTimers = {} /\ canAct(room) = {})


\* startTurnTimer has armed the timer of the player with socket id for its seat
turnGivenTo(r, id) ==
    \E t \in r.turnTimers :
        t.handle /\ t.player = id /\ t.seat = r.currentTurnIndex

\* player i has acted in the street and its bet is the highest bet
actedAndMatched(r, i) ==
    /\ r.players[i].status = "active"
    /\ r.players[i].actedInRound
    /\ r.players[i].currentBet = r.highestBet

\* C18: within a street, a player who has acted and whose currentBet equals
\* highestBet is not given the turn again by a step that does not raise
\* highestBet.
C18_NoSecondTurn ==
    [][\A i \in PlayerIdx(room) :
          (/\ gameStatus = "playing"
           /\ room'.gameStatus = "playing"
           /\ room'.hands = room.hands
           /\ room'.roundName = roundName
           /\ actedAndMatched(room, i)
           /\ players[i].seatIndex # currentTurnIndex
           /\ room'.highestBet <= highestBet)
          => ~turnGivenTo(room', players[i].id)]_vars


\* the amounts a client sends with a raise: none, its whole stack, one chip more
raiseAmounts(r, i) ==
    {<<>>, << r.players[i].chips + r.players[i].currentBet >>,
           << r.players[i].chips + r.players[i].currentBet + 1 >>}

\* the actions the player at index i can send
messagesOf(r, i) ==
    {<< kind, <<>> >> : kind \in {"fold", "check", "call", "all-in"}}
    \cup {<< "raise", amount >> : amount \in raiseAmounts(r, i)}

\* from r to q the action of player i has reopened the betting exactly if it
\* has increased highestBet
reopenedIfRaised(r, q, i) ==
    IF q.highestBet > r.highestBet
    THEN \A j \in PlayerIdx(r) \ {i} :
            r.players[j].status = "active" => ~q.players[j].actedInRound
    ELSE \A j \in PlayerIdx(r) \ {i} :
            q.players[j].actedInRound = r.players[j].actedInRound

\* C19: an applied action clears actedInRound of the other 'active' players
\* if it increases highestBet, and leaves actedInRound of every other player
\* unchanged if it does not (fold, check, call, and a shove, sent as 'all-in'
\* or as a raise, whose total does not exceed highestBet).
C19_ReopenExactlyOnRaise ==
    gameStatus = "playing" =>
        \A i \in PlayerIdx(room) : \A msg \in messagesOf(room, i) :
            players[i].seatIndex = currentTurnIndex =>
                reopenedIfRaised(room, applyAction(clearTurnTimer(room), i, msg[1], msg[2]), i)


\* the amounts sent with a bet or raise: missing, zero, negative, around the
\* bet to call, around the minimum, around the sender's stack
requested(r, i) ==
    {<<>>, <<0>>, <<0 - 5>>}
    \cup {<<r.highestBet + d>> : d \in 0..1}
    \cup {<<minTotal(r) + d>> : d \in (0 - 1)..1}
    \cup {<<r.players[i].chips + r.players[i].currentBet + d>> : d \in (0 - 1)..0}

\* the bet or raise of player i took the bet level from r to q
raisedByMinimum(r, q, i) ==
    /\ q.highestBet >= r.highestBet + r.lastRaiseAmount
    /\ q.players[i].currentBet = q.highestBet
    /\ q.lastRaiseAmount = q.highestBet - r.highestBet

betsWithinHighest(r) ==
    \A i \in PlayerIdx(r) : r.players[i].currentBet <= r.highestBet

\* C21: within a street highestBet never decreases, and in every 'playing'
\* state every player's currentBet is at most highestBet.
C21_HighestBetMonotone ==
    [][/\ (/\ gameStatus = "playing"
           /\ room'.gameStatus = "playing"
           /\ room'.hands = room.hands
           /\ room'.roundName = roundName) => room'.highestBet >= highestBet
       /\ room'.gameStatus = "playing" => betsWithinHighest(room')]_vars


\* C22: in every 'playing' state a dealt-in player who has not folded has no
\* chips exactly if its status is 'all-in'; so every 'active' player has chips.
C22_AllInExact ==
    gameStatus = "playing" =>
        \A i \in nonFolded(room) :
            (players[i].chips = 0) <=> (players[i].status = "all-in")


\* from r to q the action of player i has given it no chips back
notPaid(r, q, i) ==
    /\ q.players[i].chips <= r.players[i].chips
    /\ q.players[i].currentBet >= r.players[i].currentBet
    /\ q.players[i].chips >= 0
    /\ q.players[i].currentBet >= 0
    /\ q.pot >= 0

\* C23: no applied fold, check, call, bet/raise or all-in pays its sender:
\* the sender's chips do not grow, its currentBet does not shrink, and chips,
\* currentBet and pot stay >= 0.
C23_NoPayingAction ==
    /\ room.pot >= 0
    /\ \A i \in PlayerIdx(room) : players[i].chips >= 0 /\ players[i].currentBet >= 0
    /\ gameStatus = "playing" =>
          \A i \in PlayerIdx(room) : \A msg \in messagesOf(room, i) :
              players[i].seatIndex = currentTurnIndex =>
                  notPaid(room, applyAction(clearTurnTimer(room), i, msg[1], msg[2]), i)


\* the seats of the players dealt in
dealtSeats(r) ==
    {r.players[i].seatIndex : i \in {j \in PlayerIdx(r) : r.players[j].hand # <<>>}}

\* the first seat clockwise of seat from at which a player is dealt in
clockwise(r, from) ==
    (from + SeqMin({j \in 1..MaxSeats : (from + j) % MaxSeats \in dealtSeats(r)}))
        % MaxSeats

\* the seat that is to post the small blind: the first clockwise of the
\* dealer, the dealer itself when two players are dealt in
smallBlindSeat(r) ==
    IF Cardinality(dealtSeats(r)) = 2 /\ r.dealerIndex \in dealtSeats(r)
    THEN r.dealerIndex
    ELSE clockwise(r, r.dealerIndex)

\* the player in seat has posted min(chips, blind) of the chips it started with
posted(r, seat, blind) ==
    \E i \in PlayerIdx(r) :
        /\ r.players[i].seatIndex = seat
        /\ r.players[i].currentBet =
              (IF r.startChips[r.players[i].id] < blind
               THEN r.startChips[r.players[i].id] ELSE blind)
        /\ r.players[i].chips = r.startChips[r.players[i].id] - r.players[i].currentBet

\* the blinds and the first turn of the hand that r has just started
blindsInPosition(r) ==
    /\ r.sbIndex = smallBlindSeat(r)
    /\ r.bbIndex = clockwise(r, smallBlindSeat(r))
    /\ posted(r, r.sbIndex, SMALL_BLIND)
    /\ posted(r, r.bbIndex, BIG_BLIND)
    /\ r.currentTurnIndex = clockwise(r, r.bbIndex)

\* C24: when a hand starts the small blind is posted by the next dealt-in
\* player clockwise of the dealer and the big blind by the next one clockwise
\* of the small blind; when two players are dealt in the dealer posts the
\* small blind and the other player the big blind.  Each blind is
\* min(chips, blind size) and the first turn goes to the next dealt-in player
\* clockwise of the big blind.
C24_BlindPositions ==
    [][room'.hands = room.hands + 1 => blindsInPosition(room')]_vars


\* the community cards of a street (lines 148-158 of nextStreet)
streetCards(name) ==
    CASE name = "preflop" -> 0
      [] name = "flop" -> 3
      [] name = "turn" -> 4
      [] name = "river" -> 5
      [] OTHER -> 0

\* C25: while a hand is played communityCards has 0 cards on preflop, 3 on
\* the flop, 4 on the turn and 5 on the river, and a showdown in which two or
\* more candidates are evaluated has 5 community cards.
C25_CommunityCardCount ==
    /\ gameStatus = "playing" => Len(communityCards) = streetCards(roundName)
    /\ (/\ gameStatus = "showdown"
        /\ handResult.kind = "showdown"
        /\ Cardinality(endHandCandidates(room)) >= 2) => Len(communityCards) = 5


\* the timeout t was armed for the turn that is still open: its player sits at
\* currentTurnIndex, is in the list, and has neither folded nor gone all-in
\* since
armedForOpenTurn(r, t) ==
    /\ t.handle
    /\ t.seat = r.currentTurnIndex
    /\ \E i \in PlayerIdx(r) :
          /\ r.players[i].id = t.player
          /\ r.players[i].seatIndex = t.seat
          /\ r.players[i].status = "active"

\* the expiry of t folds its player and changes the status of no other player
\* before the round-end test
expiryFoldsOwner(r, t) ==
    \E i \in {IndexOfId(r.players, t.player)} :
        \E q \in {applyAction(clearTurnTimer(r), i, "fold", <<>>)} :
            /\ handlePlayerAction([r EXCEPT !.turnTimers = @ \ {t}],
                                  t.player, t.seat, "fold", <<>>) # r
            /\ q.players[i].status = "folded"
            /\ \A j \in PlayerIdx(r) \ {i} : q.players[j] = r.players[j]

\* C27: under every interleaving of actions, disconnects, joins and timer
\* expiries at most one turn timer is pending, none is pending while the
\* table is 'waiting' or in 'showdown', and a pending timer is the one armed
\* for the player whose turn it still is, so that its expiry folds that
\* player and nobody else.
C27_TurnTimerDiscipline ==
    /\ Cardinality(turnTimers) <= 1
    /\ gameStatus \in {"waiting", "showdown"} => turnTimers = {}
    /\ \A t \in turnTimers : armedForOpenTurn(room, t) /\ expiryFoldsOwner(room, t)


\* a hand in which a player has left and another has joined since the deal,
\* the turn has passed on, and the timer of the open turn is pending
C27_Witness ==
    /\ gameStatus = "playing"
    /\ \E s \in DOMAIN sockets : sockets[s] = "gone"
    /\ \E i \in PlayerIdx(room) : players[i].status = "waiting" /\ players[i].hand = <<>>
    /\ \E i \in PlayerIdx(room) : players[i].status = "folded" /\ players[i].actedInRound
    /\ \E t \in turnTimers : armedForOpenTurn(room, t)


\* the top rank of the highest run of five consecutive ranks in one suit
\* (the Ace also counting as 1)
straightFlushTop(cards) ==
    SeqMax({high \in 5..14 :
               \E u \in SUITS :
                  \A k \in 0..4 : holds(cards, IF high - k = 1 THEN 14 ELSE high - k, u)})

\* C28: an input of seven cards in which a suit holds five cards of
\* consecutive ranks, also when the suit holds six or seven cards and the run
\* is not among its five highest, is scored in the straight-flush tier,
\* 900 plus the top rank of the run.
C28_StraightFlushWholeSuit ==
    (room.score # Undefined /\ containsStraightFlush(allSeven(room)))
        => room.score = 900 + straightFlushTop(allSeven(room))


\* the check of player i took the table from r to q, before the round-end test
checkApplied(r, q, i) ==
    /\ q.players[i].chips = r.players[i].chips
    /\ q.players[i].currentBet = r.players[i].currentBet
    /\ r.highestBet - r.players[i].currentBet > 0 => q.players[i].status = "folded"
    /\ r.highestBet - r.players[i].currentBet = 0 =>
          q.players[i].status = r.players[i].status
    /\ q.players[i].actedInRound

\* C26: a check by the player whose turn it is marks it 'folded' when
\* highestBet - currentBet > 0 and leaves its status unchanged when that
\* amount is 0, with chips and currentBet unchanged; in both cases
\* actedInRound becomes true and the round-closure check runs on the result.
C26_CheckOwingCall ==
    gameStatus = "playing" =>
        \A i \in PlayerIdx(room) :
            players[i].seatIndex = currentTurnIndex =>
                \E q \in {applyAction(clearTurnTimer(room), i, "check", <<>>)} :
                    /\ checkApplied(room, q, i)
                    /\ handlePlayerAction(room, players[i].id, players[i].seatIndex,
                                          "check", <<>>)
                          = afterAction(checkRoundEnd(noteAction(q, i, "check")))

\* a call is owed by the player whose turn it is, after another player has
\* acted and folded, and its check folds it
C26_Witness ==
    /\ gameStatus = "playing"
    /\ \E j \in PlayerIdx(room) : players[j].status = "folded" /\ players[j].actedInRound
    /\ \E i \in PlayerIdx(room) :
          /\ players[i].seatIndex = currentTurnIndex
          /\ players[i].status = "active"
          /\ highestBet - players[i].currentBet > 0
          /\ applyAction(clearTurnTimer(room), i, "check", <<>>).players[i].status = "folded"

====
